---- MODULE Spec2Model ----
(***************************************************************************)
(* FindBookApp: the BookFinder React component in its two variants.        *)
(*   extended variant: src/src/findBook/findBook.js                        *)
(*   minimal variant : src/unnamed/part_000                                *)
(* Text (the query, parameter values) is a sequence of pieces, each piece  *)
(* a string; a result record is a record with the field "key" and, when    *)
(* the API gave one, the field "first_publish_year".                       *)
(***************************************************************************)
EXTENDS Integers, Sequences, FiniteSets, TLC

VARIABLES
    variant,      \* which BookFinder is mounted: "extended" or "minimal"
    query, field, ebookOnly, lang, sort,     \* findBook.js:27-31
    books, total, page, loading, error,      \* findBook.js:34-38
    saved,        \* findBook.js:42, the state held by useLocalStorage
    storage,      \* localStorage item "bookfinder.saved": raw text or NoItem
    timers,       \* pending setTimeout callbacks of the debounce effect
    reqs,         \* requests of fetchBooks whose promise is not settled yet
    mQuery, mBooks, mLoading, mError,        \* part_000:5-8
    mReqs,        \* requests of searchBooks whose promise is not settled yet
    last,         \* history: the operation that produced this state
    changed,      \* history: the control that changed last, "none" after a load
    sinceChange,  \* history: ms since the last change of a control
    debounced,    \* history: URLs the debounce has fetched since that change
    fetched,      \* history: the URL of the latest fetch since that change
    quiet,        \* history: a request failed and no user event came since
    newestOut,    \* history: the most recently issued request is outstanding
    writer        \* history: who wrote books/total/error last

ctlVars == <<query, field, ebookOnly, lang, sort, page>>
resVars == <<books, total, loading, error>>
minVars == <<mQuery, mBooks, mLoading, mError, mReqs>>
savVars == <<saved, storage>>
vars == <<variant, query, field, ebookOnly, lang, sort, books, total, page,
          loading, error, saved, storage, timers, reqs, mQuery, mBooks,
          mLoading, mError, mReqs, last, changed, sinceChange, debounced,
          fetched, quiet, newestOut, writer>>

----------------------------------------------------------------------------
(* Text *)

Whitespace == {" "}

RECURSIVE TrimStart(_)
TrimStart(s) ==
    IF s # <<>> /\ Head(s) \in Whitespace THEN TrimStart(Tail(s)) ELSE s

RECURSIVE TrimEnd(_)
TrimEnd(s) ==
    IF s # <<>> /\ s[Len(s)] \in Whitespace
    THEN TrimEnd(SubSeq(s, 1, Len(s) - 1)) ELSE s

\* String.prototype.trim
Trim(s) == TrimEnd(TrimStart(s))

RECURSIVE Join(_, _)
\* Array.prototype.join over a list of names
Join(names, sep) ==
    IF names = <<>> THEN <<>>
    ELSE IF Len(names) = 1 THEN <<names[1]>>
    ELSE <<names[1], sep>> \o Join(Tail(names), sep)

----------------------------------------------------------------------------
(* Result records and API response bodies *)

Doc(k, y) == [key |-> k, first_publish_year |-> y]
DocNoYear(k) == [key |-> k]

HasYear(d) == "first_publish_year" \in DOMAIN d

\* a.first_publish_year || 0
YearOrZero(d) ==
    IF HasYear(d) /\ d.first_publish_year # 0 THEN d.first_publish_year ELSE 0

----------------------------------------------------------------------------
(* The outbound URL *)

ENDPOINT == "https://openlibrary.org/search.json"

FIELDS == <<"key", "title", "author_name", "cover_i", "first_publish_year",
            "ebook_access", "has_fulltext", "language", "edition_count",
            "subject">>

Param(n, v) == [name |-> n, value |-> v]

\* URLSearchParams.set: replace the value of an existing name, else append
RECURSIVE ParamsSet(_, _, _)
ParamsSet(params, n, v) ==
    IF params = <<>> THEN <<Param(n, v)>>
    ELSE IF Head(params).name = n THEN <<Param(n, v)>> \o Tail(params)
    ELSE <<Head(params)>> \o ParamsSet(Tail(params), n, v)

SearchFields == {"title", "author", "subject", "isbn"}

BuildUrlSortLeak(env) ==
    LET p1 == ParamsSet(<<>>, "page", <<ToString(env.page)>>)
        p2 == IF Trim(env.query) = <<>> THEN ParamsSet(p1, "q", <<>>)
              ELSE IF env.field \in SearchFields
              THEN ParamsSet(p1, env.field, Trim(env.query))
              ELSE ParamsSet(p1, "q", Trim(env.query))
        p3 == IF env.ebookOnly THEN ParamsSet(p2, "has_fulltext", <<"true">>) ELSE p2
        p4 == IF env.lang # <<>> THEN ParamsSet(p3, "language", env.lang) ELSE p3
        p5 == ParamsSet(p4, "fields", Join(FIELDS, ","))
        p6 == IF env.sort # "relevance" THEN ParamsSet(p5, "sort", <<env.sort>>) ELSE p5
    IN  [base |-> ENDPOINT, params |-> p6]

\* buildUrl, over the values of the render that defined it
BuildUrl(env) ==
    LET p1 == ParamsSet(<<>>, "page", <<ToString(env.page)>>)
        p2 == IF Trim(env.query) = <<>> THEN ParamsSet(p1, "q", <<>>)
              ELSE IF env.field = "title" THEN ParamsSet(p1, "title", Trim(env.query))
              ELSE IF env.field = "author" THEN ParamsSet(p1, "author", Trim(env.query))
              ELSE IF env.field = "subject" THEN ParamsSet(p1, "subject", Trim(env.query))
              ELSE IF env.field = "isbn" THEN ParamsSet(p1, "isbn", Trim(env.query))
              ELSE ParamsSet(p1, "q", Trim(env.query))
        p3 == IF env.ebookOnly THEN ParamsSet(p2, "has_fulltext", <<"true">>) ELSE p2
        p4 == IF env.lang # <<>> THEN ParamsSet(p3, "language", env.lang) ELSE p3
        p5 == ParamsSet(p4, "fields", Join(FIELDS, ","))
    IN  [base |-> ENDPOINT, params |-> p5]

----------------------------------------------------------------------------
(* fetchBooks: what a settled request writes *)

NETWORK_ERROR == "Network error. Please try again."
NO_BOOKS == "No books found."

\* the comparators of findBook.js:100 and :102
Compare(dir, a, b) ==
    IF dir = "year_asc" THEN YearOrZero(a) - YearOrZero(b)
    ELSE YearOrZero(b) - YearOrZero(a)

\* Array.prototype.sort with a comparator is stable: insertion from the left
RECURSIVE InsertSorted(_, _, _)
InsertSorted(s, x, dir) ==
    IF s = <<>> THEN <<x>>
    ELSE IF Compare(dir, s[Len(s)], x) <= 0 THEN Append(s, x)
    ELSE Append(InsertSorted(SubSeq(s, 1, Len(s) - 1), x, dir), s[Len(s)])

RECURSIVE SortWith(_, _)
SortWith(docs, dir) ==
    IF docs = <<>> THEN <<>>
    ELSE InsertSorted(SortWith(SubSeq(docs, 1, Len(docs) - 1), dir),
                      docs[Len(docs)], dir)

\* findBook.js:99-103
SortDocs(docs, s) ==
    IF s = "year_asc" THEN SortWith(docs, "year_asc")
    ELSE IF s = "year_desc" THEN SortWith(docs, "year_desc")
    ELSE docs

\* Array.isArray(data.docs) ? data.docs : []
DocsOf(data) == IF "docs" \in DOMAIN data THEN data.docs ELSE <<>>

\* Number(data.numFound || data.num_found || 0)
NumFoundOf(data) ==
    IF "numFound" \in DOMAIN data /\ data.numFound # 0 THEN data.numFound
    ELSE IF "num_found" \in DOMAIN data /\ data.num_found # 0 THEN data.num_found
    ELSE 0

pageSize == 20

Max(a, b) == IF a >= b THEN a ELSE b
Min(a, b) == IF a <= b THEN a ELSE b
CeilDiv(a, b) == (a + b - 1) \div b

\* findBook.js:140
TotalPages(t) == Max(1, CeilDiv(t, pageSize))

----------------------------------------------------------------------------
(* JSON text of the saved list: a sequence of tokens *)

Punct(c) == [p |-> c]
StrMember(name, v) == [k |-> name, s |-> v]
NumMember(name, v) == [k |-> name, n |-> v]

IsPunct(tok, c) == "p" \in DOMAIN tok /\ tok.p = c
IsMember(tok) == "k" \in DOMAIN tok
MemberValue(tok) == IF "s" \in DOMAIN tok THEN tok.s ELSE tok.n

\* JSON.stringify of one record: its own fields in order
StringifyDoc(d) ==
    <<Punct("{"), StrMember("key", d.key)>>
    \o (IF HasYear(d)
        THEN <<Punct(","), NumMember("first_publish_year", d.first_publish_year)>>
        ELSE <<>>)
    \o <<Punct("}")>>

RECURSIVE StringifyItems(_)
StringifyItems(list) ==
    IF list = <<>> THEN <<>>
    ELSE IF Len(list) = 1 THEN StringifyDoc(list[1])
    ELSE StringifyDoc(list[1]) \o <<Punct(",")>> \o StringifyItems(Tail(list))

\* JSON.stringify(value) of findBook.js:19
Stringify(list) == <<Punct("[")>> \o StringifyItems(list) \o <<Punct("]")>>

ParseFail == [ok |-> FALSE]
Parsed(v, n) == [ok |-> TRUE, value |-> v, next |-> n]

\* the members of an object from token i on, up to its closing brace
RECURSIVE ParseMembers(_, _, _)
ParseMembers(toks, i, acc) ==
    IF i + 1 > Len(toks) \/ ~IsMember(toks[i]) THEN ParseFail
    ELSE LET obj == (toks[i].k :> MemberValue(toks[i])) @@ acc
         IN  IF IsPunct(toks[i + 1], "}") THEN Parsed(obj, i + 2)
             ELSE IF IsPunct(toks[i + 1], ",") THEN ParseMembers(toks, i + 2, obj)
             ELSE ParseFail

\* an object starting at token i (a record of the saved list always has a key)
ParseObject(toks, i) ==
    IF i > Len(toks) \/ ~IsPunct(toks[i], "{") THEN ParseFail
    ELSE ParseMembers(toks, i + 1, <<>>)

\* the elements of an array from token i on, up to its closing bracket
RECURSIVE ParseElements(_, _, _)
ParseElements(toks, i, acc) ==
    LET o == ParseObject(toks, i)
    IN  IF ~o.ok \/ o.next > Len(toks) THEN ParseFail
        ELSE IF IsPunct(toks[o.next], "]") THEN Parsed(Append(acc, o.value), o.next + 1)
        ELSE IF IsPunct(toks[o.next], ",")
             THEN ParseElements(toks, o.next + 1, Append(acc, o.value))
        ELSE ParseFail

\* JSON.parse(raw) of findBook.js:12; ok = FALSE when it throws
Parse(toks) ==
    IF Len(toks) < 2 \/ ~IsPunct(toks[1], "[") THEN ParseFail
    ELSE IF IsPunct(toks[2], "]")
         THEN (IF Len(toks) = 2 THEN Parsed(<<>>, 3) ELSE ParseFail)
    ELSE LET r == ParseElements(toks, 2, <<>>)
         IN  IF r.ok /\ r.next = Len(toks) + 1 THEN r ELSE ParseFail

----------------------------------------------------------------------------
(* useLocalStorage and the saved list *)

NoItem == [present |-> FALSE]
Item(text) == [present |-> TRUE, text |-> text]

HydrateNoParse(item, initialValue) == initialValue

\* the useState initializer of findBook.js:9-16, given localStorage.getItem(key)
Hydrate(item, initialValue) ==
    IF ~item.present \/ item.text = <<>> THEN initialValue
    ELSE LET r == Parse(item.text)
         IN  IF r.ok THEN r.value ELSE initialValue

\* prev.find((b) => b.key === id): the index of the first match, 0 when none
RECURSIVE FindKey(_, _, _)
FindKey(prev, id, i) ==
    IF i > Len(prev) THEN 0
    ELSE IF prev[i].key = id THEN i
    ELSE FindKey(prev, id, i + 1)

\* prev.filter((b) => b.key !== id)
FilterOutKey(prev, id) == SelectSeq(prev, LAMBDA b: b.key # id)

ToggledFirstOnly(prev, book) ==
    LET i == FindKey(prev, book.key, 1)
    IN  IF i # 0 THEN SubSeq(prev, 1, i - 1) \o SubSeq(prev, i + 1, Len(prev))
        ELSE Append(prev, book)

\* the updater handed to setSaved by toggleSave, findBook.js:144-148
Toggled(prev, book) ==
    LET id == book.key
        exists == FindKey(prev, id, 1)
    IN  IF exists # 0 THEN FilterOutKey(prev, id)
        ELSE Append(prev, book)

\* isSaved
IsSaved(list, book) == \E i \in 1..Len(list) : list[i].key = book.key

----------------------------------------------------------------------------
(* Bounds and input sets *)

MaxInFlight == 2      \* requests outstanding at a time
MaxSaved == 3         \* toggleSave appends while the saved list is shorter

DocA90 == Doc("/works/A", 1990)
DocA01 == Doc("/works/A", 2001)
DocB == DocNoYear("/works/B")
DocC01 == Doc("/works/C", 2001)

\* parsed bodies of an OK response
BodyMany == [docs |-> <<DocC01, DocB, DocA90, DocA01>>, numFound |-> 45, num_found |-> 45]
BodyOne == [docs |-> <<DocA90>>, num_found |-> 25]
BodyNone == [docs |-> <<>>, numFound |-> 0, num_found |-> 0]
BodyOdd == [message |-> "bad request"]
Bodies == {BodyMany, BodyOne, BodyNone, BodyOdd}

\* how a request fails: fetch rejects, res.ok is false, res.json() rejects
Failures == {"rejected", "http", "badjson"}

\* the values the controls take
Queries == {<<>>, <<" ">>, <<"a">>}
Fields == {"all", "author"}
Langs == {<<>>, <<"eng">>}
Sorts == {"relevance", "year_asc", "year_desc"}

\* the options of the selects in full, and more queries, for the URL alone
AllFields == {"all", "title", "author", "subject", "isbn"}
AllLangs == {<<>>, <<"eng">>, <<"spa">>, <<"fra">>, <<"deu">>, <<"hin">>,
             <<"jpn">>, <<"zho">>}
AllQueries == {<<>>, <<" ">>, <<"a">>, <<" ", "a", " ">>, <<"a", " ", "b">>}
Pages == 1..3

\* what localStorage may hold before the first load
TruncatedText == <<Punct("["), Punct("{"), StrMember("key", "/works/A")>>
StoredTexts == {NoItem, Item(<<>>), Item(TruncatedText),
                Item(Stringify(<<DocA90, DocA01>>))}

----------------------------------------------------------------------------
(* The extended component: renders and effects *)

DEBOUNCE_MS == 300
TickMs == DEBOUNCE_MS \div 2

\* the values a render closes over
Env == [query |-> query, field |-> field, ebookOnly |-> ebookOnly,
        lang |-> lang, sort |-> sort, page |-> page]

\* dependency lists of the two effects, findBook.js:132 and :138
DebounceDeps == {"query", "field", "ebookOnly", "lang", "sort", "page"}
ResetDepsNoSort == {"query", "field", "ebookOnly", "lang"}
ResetDeps == {"query", "field", "ebookOnly", "lang", "sort"}

\* setTimeout(callback, 300) of the render with values e
Timer(e) == [left |-> DEBOUNCE_MS, env |-> e]

ClearTimeoutNoop(ts) == ts

\* the effect's cleanup, clearTimeout(handle): handle is the timer its last run
\* set; all timers have the same delay, so that one is the last still pending
ClearTimeout(ts) == IF ts = <<>> THEN ts ELSE SubSeq(ts, 1, Len(ts) - 1)

\* the debounce effect of a render with values e whose dependency changed
DebounceEffect(ts, e) == Append(ClearTimeout(ts), Timer(e))

\* A state setter gave control name the new value v: the render, its effects,
\* and the second render when the reset effect changes the page.
Update(name, v) ==
    LET e1 == [Env EXCEPT ![name] = v]
        t1 == IF name \in DebounceDeps THEN DebounceEffect(timers, e1) ELSE timers
        reset == name \in ResetDeps /\ e1.page # 1
        e2 == IF reset THEN [e1 EXCEPT !.page = 1] ELSE e1
        t2 == IF reset /\ "page" \in DebounceDeps THEN DebounceEffect(t1, e2) ELSE t1
    IN  /\ variant = "extended"
        /\ Env[name] # v
        /\ query' = e2.query
        /\ field' = e2.field
        /\ ebookOnly' = e2.ebookOnly
        /\ lang' = e2.lang
        /\ sort' = e2.sort
        /\ page' = e2.page
        /\ timers' = t2
        /\ sinceChange' = 0
        /\ debounced' = <<>>
        /\ fetched' = <<>>
        /\ quiet' = FALSE
        /\ changed' = name
        /\ last' = [op |-> "change", from |-> page]
        /\ UNCHANGED <<variant, resVars, savVars, reqs, minVars, newestOut, writer>>

ChangeQuery(v) == Update("query", v)
ChangeField(v) == Update("field", v)
ChangeEbookOnly(v) == Update("ebookOnly", v)
ChangeLang(v) == Update("lang", v)
ChangeSort(v) == Update("sort", v)

\* the Prev and Next buttons, rendered when totalPages > 1
PrevPage == /\ TotalPages(total) > 1
            /\ Update("page", Max(1, page - 1))
NextPage == /\ TotalPages(total) > 1
            /\ Update("page", Min(TotalPages(total), page + 1))

\* time passes; a timer that is due fires before more time passes
Tick ==
    /\ variant = "extended"
    /\ \A i \in 1..Len(timers) : timers[i].left > 0
    /\ timers # <<>> \/ sinceChange < DEBOUNCE_MS
    /\ timers' = [i \in 1..Len(timers) |->
                    [timers[i] EXCEPT !.left = Max(0, timers[i].left - TickMs)]]
    /\ sinceChange' = Min(DEBOUNCE_MS, sinceChange + TickMs)
    /\ last' = [op |-> "tick"]
    /\ UNCHANGED <<variant, ctlVars, resVars, savVars, reqs, minVars, changed,
                   debounced, fetched, quiet, newestOut, writer>>

\* fetchBooks of the render with values e, up to its first await. The URL
\* goes out with fetch; the pending continuation reads only sort of e.
FetchBooks(e) ==
    /\ Len(reqs) < MaxInFlight
    /\ loading' = TRUE
    /\ error' = ""
    /\ fetched' = <<BuildUrl(e)>>
    /\ reqs' = Append(reqs, [sort |-> e.sort])
    /\ newestOut' = TRUE
    /\ UNCHANGED <<books, total>>

\* the timer callback, query empty: findBook.js:121-127
DebounceEmpty ==
    /\ variant = "extended"
    /\ timers # <<>> /\ Head(timers).left = 0
    /\ Trim(Head(timers).env.query) = <<>>
    /\ timers' = Tail(timers)
    /\ books' = <<>>
    /\ total' = 0
    /\ error' = ""
    /\ loading' = FALSE
    /\ writer' = "debounce"
    /\ last' = [op |-> "debounceEmpty"]
    /\ UNCHANGED <<variant, ctlVars, savVars, reqs, minVars, changed, sinceChange,
                   debounced, fetched, quiet, newestOut>>

\* the timer callback, query not empty: findBook.js:128
DebounceFetch ==
    /\ variant = "extended"
    /\ timers # <<>> /\ Head(timers).left = 0
    /\ Trim(Head(timers).env.query) # <<>>
    /\ timers' = Tail(timers)
    /\ FetchBooks(Head(timers).env)
    /\ debounced' = Append(debounced, BuildUrl(Head(timers).env))
    /\ last' = [op |-> "debounceFetch"]
    /\ UNCHANGED <<variant, ctlVars, savVars, minVars, changed, sinceChange, quiet, writer>>

\* Enter in the query input: findBook.js:185
EnterKey ==
    /\ variant = "extended"
    /\ FetchBooks(Env)
    /\ quiet' = FALSE
    /\ last' = [op |-> "enter"]
    /\ UNCHANGED <<variant, ctlVars, savVars, timers, minVars, changed, sinceChange,
                   debounced, writer>>

\* the Search button, disabled while loading: findBook.js:187
SearchClick ==
    /\ variant = "extended"
    /\ ~loading
    /\ FetchBooks(Env)
    /\ quiet' = FALSE
    /\ last' = [op |-> "search"]
    /\ UNCHANGED <<variant, ctlVars, savVars, timers, minVars, changed, sinceChange,
                   debounced, writer>>

RemoveAt(s, i) == SubSeq(s, 1, i - 1) \o SubSeq(s, i + 1, Len(s))

\* bookkeeping common to both ways request i settles
Settled(i) ==
    /\ variant = "extended"
    /\ i \in 1..Len(reqs)
    /\ reqs' = RemoveAt(reqs, i)
    /\ newestOut' = IF i = Len(reqs) THEN FALSE ELSE newestOut
    /\ writer' = IF newestOut /\ i = Len(reqs) THEN "newest" ELSE "older"
    /\ UNCHANGED <<variant, ctlVars, savVars, timers, minVars, changed, sinceChange,
                   debounced, fetched>>

\* request i got an OK response whose body parsed to data: findBook.js:96-107, 113
SettleOk(i, data) ==
    /\ Settled(i)
    /\ LET docs == SortDocs(DocsOf(data), reqs[i].sort)
       IN  /\ books' = docs
           /\ total' = NumFoundOf(data)
           /\ error' = IF Len(docs) = 0 THEN NO_BOOKS ELSE error
    /\ loading' = FALSE
    /\ last' = [op |-> "settleOk", data |-> data, sort |-> reqs[i].sort]
    /\ UNCHANGED quiet

SettleFailKeepsResults(i, f) ==
    /\ Settled(i)
    /\ error' = NETWORK_ERROR
    /\ loading' = FALSE
    /\ quiet' = TRUE
    /\ last' = [op |-> "settleFail", how |-> f]
    /\ UNCHANGED <<books, total>>

\* request i failed in way f: findBook.js:95, 108-114
SettleFail(i, f) ==
    /\ Settled(i)
    /\ error' = NETWORK_ERROR
    /\ books' = <<>>
    /\ total' = 0
    /\ loading' = FALSE
    /\ quiet' = TRUE
    /\ last' = [op |-> "settleFail", how |-> f]

----------------------------------------------------------------------------
(* The saved list and its mirror *)

StorageEffectSkipped(item, value, stored) == item

\* the storage effect, findBook.js:17-21: setItem stores the text or throws
StorageEffect(item, value, stored) ==
    IF stored THEN Item(Stringify(value)) ELSE item

\* the Save button of a result card or the Remove button of a saved card
ToggleSave(book, stored) ==
    /\ variant = "extended"
    /\ \/ \E i \in 1..Len(books) : books[i] = book
       \/ \E i \in 1..Len(saved) : saved[i] = book
    /\ IsSaved(saved, book) \/ Len(saved) < MaxSaved
    /\ saved' = Toggled(saved, book)
    /\ storage' = StorageEffect(storage, saved', stored)
    /\ last' = [op |-> "toggleSave", book |-> book, stored |-> stored]
    /\ UNCHANGED <<variant, ctlVars, resVars, timers, reqs, minVars, changed,
                   sinceChange, debounced, fetched, quiet, newestOut, writer>>

----------------------------------------------------------------------------
(* The minimal component *)

MinSetQuery(v) ==
    /\ variant = "minimal"
    /\ mQuery # v
    /\ mQuery' = v
    /\ last' = [op |-> "minChange"]
    /\ UNCHANGED <<variant, ctlVars, resVars, savVars, timers, reqs, mBooks,
                   mLoading, mError, mReqs, changed, sinceChange, debounced, fetched,
                   quiet, newestOut, writer>>

SearchBooksNoGuard(via) ==
    /\ variant = "minimal"
    /\ via = "click" => ~mLoading
    /\ Len(mReqs) < MaxInFlight
    /\ mLoading' = TRUE
    /\ mError' = ""
    /\ mReqs' = Append(mReqs, [url |-> [base |-> ENDPOINT,
                                         params |-> <<Param("q", mQuery)>>]])
    /\ last' = [op |-> "minSearch", query |-> mQuery]
    /\ UNCHANGED <<variant, ctlVars, resVars, savVars, timers, reqs, mQuery,
                   mBooks, changed, sinceChange, debounced, fetched, quiet, newestOut, writer>>

\* searchBooks, part_000:11-16, by Enter or by the Search button (disabled
\* while loading); with an empty trimmed query it returns at once
SearchBooks(via) ==
    /\ variant = "minimal"
    /\ via = "click" => ~mLoading
    /\ IF Trim(mQuery) = <<>>
       THEN UNCHANGED <<mLoading, mError, mReqs>>
       ELSE /\ Len(mReqs) < MaxInFlight
            /\ mLoading' = TRUE
            /\ mError' = ""
            /\ mReqs' = Append(mReqs, [url |-> [base |-> ENDPOINT,
                                                 params |-> <<Param("q", mQuery)>>]])
    /\ last' = [op |-> "minSearch", query |-> mQuery]
    /\ UNCHANGED <<variant, ctlVars, resVars, savVars, timers, reqs, mQuery,
                   mBooks, changed, sinceChange, debounced, fetched, quiet, newestOut, writer>>

\* request i got a response whose body parsed to data: part_000:17-21, 25
MinSettleOk(i, data) ==
    /\ variant = "minimal"
    /\ i \in 1..Len(mReqs)
    /\ mReqs' = RemoveAt(mReqs, i)
    /\ IF "docs" \in DOMAIN data
       THEN /\ mError' = IF Len(data.docs) = 0 THEN NO_BOOKS ELSE mError
            /\ mBooks' = data.docs
       ELSE /\ mError' = NETWORK_ERROR
            /\ UNCHANGED mBooks
    /\ mLoading' = FALSE
    /\ last' = [op |-> "minSettleOk"]
    /\ UNCHANGED <<variant, ctlVars, resVars, savVars, timers, reqs, mQuery,
                   changed, sinceChange, debounced, fetched, quiet, newestOut, writer>>

\* fetch or res.json() rejected: part_000:22-25
MinSettleFail(i) ==
    /\ variant = "minimal"
    /\ i \in 1..Len(mReqs)
    /\ mReqs' = RemoveAt(mReqs, i)
    /\ mError' = NETWORK_ERROR
    /\ mLoading' = FALSE
    /\ last' = [op |-> "minSettleFail"]
    /\ UNCHANGED <<variant, ctlVars, resVars, savVars, timers, reqs, mQuery,
                   mBooks, changed, sinceChange, debounced, fetched, quiet, newestOut, writer>>

----------------------------------------------------------------------------
(* Mounting *)

InitialEnv == [query |-> <<>>, field |-> "all", ebookOnly |-> FALSE,
               lang |-> <<>>, sort |-> "relevance", page |-> 1]

\* The state after the first render and its effects of variant v, when
\* localStorage holds item and setItem stores (stored) or throws.
Mounted(v, item, stored) ==
    LET value == IF v = "extended" THEN Hydrate(item, <<>>) ELSE <<>>
    IN  [saved |-> value,
         storage |-> IF v = "extended" THEN StorageEffect(item, value, stored) ELSE item,
         timers |-> IF v = "extended" THEN DebounceEffect(<<>>, InitialEnv) ELSE <<>>,
         last |-> [op |-> "load", raw |-> item, stored |-> stored]]

Start(v, m) ==
    /\ variant = v
    /\ query = InitialEnv.query
    /\ field = InitialEnv.field
    /\ ebookOnly = InitialEnv.ebookOnly
    /\ lang = InitialEnv.lang
    /\ sort = InitialEnv.sort
    /\ page = InitialEnv.page
    /\ books = <<>>
    /\ total = 0
    /\ loading = FALSE
    /\ error = ""
    /\ saved = m.saved
    /\ storage = m.storage
    /\ timers = m.timers
    /\ reqs = <<>>
    /\ mQuery = <<>>
    /\ mBooks = <<>>
    /\ mLoading = FALSE
    /\ mError = ""
    /\ mReqs = <<>>
    /\ last = m.last
    /\ changed = "none"
    /\ sinceChange = 0
    /\ debounced = <<>>
    /\ fetched = <<>>
    /\ quiet = FALSE
    /\ newestOut = FALSE
    /\ writer = "none"

\* the page is loaded again: every state is rebuilt, the stored item stays
Reload(stored) ==
    LET m == Mounted(variant, storage, stored)
    IN  /\ query' = InitialEnv.query
        /\ field' = InitialEnv.field
        /\ ebookOnly' = InitialEnv.ebookOnly
        /\ lang' = InitialEnv.lang
        /\ sort' = InitialEnv.sort
        /\ page' = InitialEnv.page
        /\ books' = <<>>
        /\ total' = 0
        /\ loading' = FALSE
        /\ error' = ""
        /\ saved' = m.saved
        /\ storage' = m.storage
        /\ timers' = m.timers
        /\ reqs' = <<>>
        /\ mQuery' = <<>>
        /\ mBooks' = <<>>
        /\ mLoading' = FALSE
        /\ mError' = ""
        /\ mReqs' = <<>>
        /\ last' = m.last
        /\ changed' = "none"
        /\ sinceChange' = 0
        /\ debounced' = <<>>
        /\ fetched' = <<>>
        /\ quiet' = FALSE
        /\ newestOut' = FALSE
        /\ writer' = "none"
        /\ UNCHANGED variant

----------------------------------------------------------------------------
(* Specifications *)

\* Spec: the controls and the debounce of the extended component, with
\* requests that succeed (one or no result, two pages), and the minimal
\* component; nothing is stored before the first load
Init == \E v \in {"extended", "minimal"} : Start(v, Mounted(v, NoItem, TRUE))

Next ==
    \/ \E v \in Queries : ChangeQuery(v)
    \/ \E v \in Fields : ChangeField(v)
    \/ \E v \in BOOLEAN : ChangeEbookOnly(v)
    \/ \E v \in Langs : ChangeLang(v)
    \/ \E v \in {"relevance", "year_asc"} : ChangeSort(v)
    \/ PrevPage
    \/ NextPage
    \/ Tick
    \/ DebounceEmpty
    \/ DebounceFetch
    \/ EnterKey
    \/ SearchClick
    \/ \E i \in 1..MaxInFlight, data \in {BodyOne, BodyNone} : SettleOk(i, data)
    \/ \E v \in Queries : MinSetQuery(v)
    \/ \E via \in {"enter", "click"} : SearchBooks(via)
    \/ \E i \in 1..MaxInFlight, data \in Bodies : MinSettleOk(i, data)
    \/ \E i \in 1..MaxInFlight : MinSettleFail(i)

Spec == Init /\ [][Next]_vars

\* SpecFetch: requests and every way they settle, with the controls the
\* continuation of fetchBooks and the pagination depend on
InitFetch == Start("extended", Mounted("extended", NoItem, TRUE))

NextFetch ==
    \/ \E v \in Queries : ChangeQuery(v)
    \/ \E v \in Sorts : ChangeSort(v)
    \/ PrevPage
    \/ NextPage
    \/ Tick
    \/ DebounceEmpty
    \/ DebounceFetch
    \/ EnterKey
    \/ SearchClick
    \/ \E i \in 1..MaxInFlight, data \in Bodies : SettleOk(i, data)
    \/ \E i \in 1..MaxInFlight, f \in Failures : SettleFail(i, f)

SpecFetch == InitFetch /\ [][NextFetch]_vars

\* SpecSaved: the saved list over reloads; Enter on the untouched query input
\* searches and fills the results whose cards carry the Save buttons
InitSaved ==
    \E item \in StoredTexts, stored \in BOOLEAN :
        Start("extended", Mounted("extended", item, stored))

NextSaved ==
    \/ Tick
    \/ DebounceEmpty
    \/ EnterKey
    \/ SettleOk(1, BodyMany)
    \/ \E book \in {DocA90, DocA01, DocB, DocC01}, stored \in BOOLEAN :
          ToggleSave(book, stored)
    \/ \E stored \in BOOLEAN : Reload(stored)

SpecSaved == InitSaved /\ [][NextSaved]_vars

\* SpecUrl: buildUrl over every option of the controls. A start state is the
\* component at rest with these values: after the debounce fetched them and
\* BodyMany came back, or, the query being empty, after the debounce reset.
AtRest(e) ==
    LET empty == Trim(e.query) = <<>>
    IN  /\ variant = "extended"
        /\ query = e.query
        /\ field = e.field
        /\ ebookOnly = e.ebookOnly
        /\ lang = e.lang
        /\ sort = e.sort
        /\ page = e.page
        /\ books = IF empty THEN <<>> ELSE SortDocs(DocsOf(BodyMany), e.sort)
        /\ total = IF empty THEN 0 ELSE NumFoundOf(BodyMany)
        /\ loading = FALSE
        /\ error = ""
        /\ saved = <<>>
        /\ storage = Item(Stringify(<<>>))
        /\ timers = <<>>
        /\ reqs = <<>>
        /\ mQuery = <<>>
        /\ mBooks = <<>>
        /\ mLoading = FALSE
        /\ mError = ""
        /\ mReqs = <<>>
        /\ last = IF empty THEN [op |-> "debounceEmpty"]
                  ELSE [op |-> "settleOk", data |-> BodyMany, sort |-> e.sort]
        /\ changed = IF e.page > 1 THEN "page" ELSE "query"
        /\ sinceChange = DEBOUNCE_MS
        /\ debounced = IF empty THEN <<>> ELSE <<BuildUrl(e)>>
        /\ fetched = IF empty THEN <<>> ELSE <<BuildUrl(e)>>
        /\ quiet = FALSE
        /\ newestOut = FALSE
        /\ writer = IF empty THEN "debounce" ELSE "newest"

InitUrl ==
    \E q \in AllQueries, f \in AllFields, eb \in BOOLEAN, l \in AllLangs,
       s \in Sorts, p \in Pages :
        AtRest([query |-> q, field |-> f, ebookOnly |-> eb, lang |-> l,
                sort |-> s, page |-> p])

NextUrl ==
    \/ EnterKey
    \/ SearchClick

SpecUrl == InitUrl /\ [][NextUrl]_vars

----------------------------------------------------------------------------
(* Claims *)

HasKey(list, id) == \E i \in 1..Len(list) : list[i].key = id
WithoutKey(list, id) == SelectSeq(list, LAMBDA r : r.key # id)

\* C1: toggleSave(book) appends book when no saved record has book.key and
\* removes every record of that key when one has; the other records keep
\* their order, and the key is in the list afterwards iff it was not before.
C1_ToggleSave ==
    [][last'.op = "toggleSave" =>
        LET id == last'.book.key
        IN  /\ ~HasKey(saved, id) => saved' = saved \o <<last'.book>>
            /\ HasKey(saved, id) => saved' = WithoutKey(saved, id)
            /\ WithoutKey(saved', id) = WithoutKey(saved, id)
            /\ HasKey(saved', id) <=> ~HasKey(saved, id)]_vars

\* a toggle has removed both records of a key and left the third in place
C1_Witness ==
    /\ last.op = "toggleSave"
    /\ last.book = DocA01
    /\ saved = <<DocB>>

\* what the stored item holds is the JSON text of list
StoredIs(list) ==
    /\ storage.present
    /\ Parse(storage.text).ok
    /\ Parse(storage.text).value = list

\* C2 as stated: after a toggleSave, once the storage effect has run, the
\* stored item is the serialization of the whole saved list.
C2_AlwaysMirrored == last.op = "toggleSave" => StoredIs(saved)

\* C2 amended: after a load or a toggleSave, once the storage effect has run,
\* the stored item is the serialization of the whole saved list if setItem
\* stored it, and is what it was before if setItem threw.
C2_MirroredUnlessThrown ==
    [][last'.op \in {"toggleSave", "load"} /\ variant = "extended" =>
        IF last'.stored
        THEN /\ storage'.present
             /\ Parse(storage'.text).ok
             /\ Parse(storage'.text).value = saved'
        ELSE storage' = storage]_vars

C2_Witness ==
    /\ last.op = "toggleSave"
    /\ last.stored
    /\ Len(saved) = 2
    /\ StoredIs(saved)

DocSet == {DocA90, DocA01, DocB, DocC01}
SavedLists == UNION {[1..n -> DocSet] : n \in 0..(MaxSaved + 1)}

\* C3: right after a load the saved list is the list whose serialization
\* was stored, and is empty when nothing was stored or the text did not parse.
C3_Hydration ==
    last.op = "load" /\ variant = "extended" =>
        /\ \A list \in SavedLists :
              last.raw = Item(Stringify(list)) => saved = list
        /\ last.raw \in {NoItem, Item(<<>>), Item(TruncatedText)} => saved = <<>>

\* a reload brought back the two records saved before it, in their order
C3_Witness ==
    /\ last.op = "load"
    /\ last.raw = storage
    /\ saved = <<DocC01, DocB>>

Names(url) == {url.params[i].name : i \in 1..Len(url.params)}
Carries(url, n, v) ==
    \E i \in 1..Len(url.params) : url.params[i] = [name |-> n, value |-> v]
CountOf(url, names) ==
    Cardinality({i \in 1..Len(url.params) : url.params[i].name \in names})

\* url is built from the present values of the five controls
FromControls(url) ==
    /\ Carries(url, "page", <<ToString(page)>>)
    /\ Carries(url, IF field = "all" THEN "q" ELSE field, Trim(query))
    /\ ("has_fulltext" \in Names(url)) <=> ebookOnly
    /\ IF lang = <<>> THEN "language" \notin Names(url)
       ELSE Carries(url, "language", lang)

\* C4: at most one debounce timer is pending, due 300 ms after the last
\* change; the debounce fetches at most once per change, only 300 ms after
\* it and from the values the controls have then; and when no timer is left
\* and the trimmed query is not empty it has fetched exactly once.
C4_Debounce ==
    variant = "extended" =>
        /\ Len(timers) <= 1
        /\ timers # <<>> => timers[1].left = 300 - sinceChange
        /\ Len(debounced) <= 1
        /\ debounced # <<>> =>
              /\ timers = <<>>
              /\ sinceChange = 300
              /\ FromControls(debounced[1])
        /\ timers = <<>> /\ Trim(query) # <<>> => Len(debounced) = 1

\* four controls changed within one burst after the load and one fetch came
C4_Witness ==
    /\ last.op = "debounceFetch"
    /\ writer = "none"
    /\ query = <<"a">> /\ field = "author" /\ ebookOnly /\ lang = <<"eng">>
    /\ Len(debounced) = 1

SearchNames == {"q", "title", "author", "subject", "isbn"}
AllowList == <<"key", ",", "title", ",", "author_name", ",", "cover_i", ",",
               "first_publish_year", ",", "ebook_access", ",", "has_fulltext",
               ",", "language", ",", "edition_count", ",", "subject">>

\* what C5 says of a URL but for its search parameter
UrlRest(url) ==
    /\ url.base = "https://openlibrary.org/search.json"
    /\ Carries(url, "page", <<ToString(page)>>)
    /\ CountOf(url, {"page"}) = 1
    /\ CountOf(url, SearchNames) = 1
    /\ ("has_fulltext" \in Names(url)) <=> ebookOnly
    /\ ebookOnly => Carries(url, "has_fulltext", <<"true">>)
    /\ ("language" \in Names(url)) <=> lang # <<>>
    /\ lang # <<>> => Carries(url, "language", lang)
    /\ Carries(url, "fields", AllowList)
    /\ Names(url) \subseteq
          SearchNames \cup {"page", "has_fulltext", "language", "fields"}
    /\ \A i \in 1..Len(url.params) : url.params[i].value # <<sort>>

\* C5 as stated: the search parameter is the one field names, q for "all".
C5_FieldNamesParam ==
    fetched # <<>> =>
        /\ UrlRest(fetched[1])
        /\ Carries(fetched[1], IF field = "all" THEN "q" ELSE field, Trim(query))

\* C5 amended: the search parameter is q with an empty value when the
\* trimmed query is empty, and else the one field names (q for "all") with
\* the trimmed query; the rest as stated.
C5_BuildUrl ==
    fetched # <<>> =>
        /\ UrlRest(fetched[1])
        /\ Carries(fetched[1],
                   IF field = "all" \/ Trim(query) = <<>> THEN "q" ELSE field,
                   Trim(query))

\* Enter on a blank query with a field chosen
C5_Witness ==
    /\ last.op = "enter"
    /\ fetched # <<>>
    /\ query = <<" ">> /\ field = "isbn" /\ lang = <<"hin">> /\ ebookOnly
    /\ page = 3

\* the docs list of a response body, empty when docs is not an array
ListOf(data) == IF "docs" \in DOMAIN data THEN data.docs ELSE <<>>

\* the result count of a response body, whichever name it goes by
CountIn(data) ==
    IF "numFound" \in DOMAIN data THEN data.numFound
    ELSE IF "num_found" \in DOMAIN data THEN data.num_found
    ELSE 0

YearOf(d) == IF "first_publish_year" \in DOMAIN d THEN d.first_publish_year ELSE 0

SameRecords(a, b) ==
    /\ Len(a) = Len(b)
    /\ \A d \in {a[i] : i \in 1..Len(a)} :
          Cardinality({i \in 1..Len(a) : a[i] = d})
              = Cardinality({i \in 1..Len(b) : b[i] = d})

\* list holds the records of the body in the order sort option s asks for
Ordered(list, data, s) ==
    /\ SameRecords(list, ListOf(data))
    /\ s = "relevance" => list = ListOf(data)
    /\ s = "year_asc" =>
          \A i \in 1..(Len(list) - 1) : YearOf(list[i]) <= YearOf(list[i + 1])
    /\ s = "year_desc" =>
          \A i \in 1..(Len(list) - 1) : YearOf(list[i]) >= YearOf(list[i + 1])

\* C6 as stated: after an OK response books is the docs list in the order
\* of the sort option, total is the result count, and error is "No books
\* found." when books is empty and the empty string otherwise.
C6_SuccessWritesAll ==
    [][last'.op = "settleOk" =>
        /\ Ordered(books', last'.data, last'.sort)
        /\ total' = CountIn(last'.data)
        /\ error' = IF books' = <<>> THEN "No books found." ELSE ""]_vars

\* C6 without its last part (books and total alone), which the code keeps
C6_BooksAndTotal ==
    [][last'.op = "settleOk" =>
        /\ Ordered(books', last'.data, last'.sort)
        /\ total' = CountIn(last'.data)
        /\ books' = <<>> => error' = "No books found."]_vars

\* what a failed request writes
FailureWrites ==
    /\ error' = "Network error. Please try again."
    /\ books' = <<>>
    /\ total' = 0
    /\ loading' = FALSE

\* a step that issues a request and is no user event
SilentRequest == quiet /\ quiet' /\ Len(reqs') > Len(reqs)

\* C7 as stated: a failed request writes the error message, no books, total
\* 0 and loading false, and no request follows it before a user event.
C7_NoRequestAfterFailure ==
    [][/\ last'.op = "settleFail" => FailureWrites
       /\ ~SilentRequest]_vars

\* C7 amended: the same writes; the only request that may follow the failure
\* before a user event is the one of a debounce timer that was pending when
\* the request failed, which fires once.
C7_FailureReported ==
    [][/\ last'.op = "settleFail" => FailureWrites
       /\ SilentRequest =>
             /\ timers # <<>>
             /\ timers' = Tail(timers)
             /\ Len(reqs') = Len(reqs) + 1]_vars

\* a request, the only one, failed on its body while a debounce timer is
\* pending
C7_Witness ==
    /\ last.op = "settleFail"
    /\ last.how = "badjson"
    /\ error = "Network error. Please try again."
    /\ timers # <<>>
    /\ reqs = <<>>

\* C8: a change of query, field, ebookOnly, lang or sort leaves the page at 1
\* and the debounced request after it carries page=1; a change of the page
\* moves it by one and leaves the other five controls as they were.
C8_PageReset ==
    [][/\ last'.op = "change" /\ changed' # "page" => page' = 1
       /\ last'.op = "change" /\ changed' = "page" =>
             /\ page' \in {page - 1, page + 1}
             /\ <<query, field, ebookOnly, lang, sort>>'
                    = <<query, field, ebookOnly, lang, sort>>
       /\ last'.op = "debounceFetch" /\ changed # "page" =>
             Carries(fetched'[1], "page", <<"1">>)]_vars

\* the sort changed while page 2 was shown
C8_Witness ==
    /\ last.op = "change"
    /\ changed = "sort"
    /\ last.from = 2
    /\ page = 1

\* C9: the debounce never fetches for an empty trimmed query: its timer,
\* firing then, issues no request and sets books, total, error and loading to
\* empty, 0, "" and false; searchBooks of the minimal variant with an empty
\* trimmed query issues no request and changes no state.
C9_NoEmptySearch ==
    [][/\ Len(timers') < Len(timers) /\ last'.op # "load"
          /\ Trim(query) = <<>> =>
             /\ reqs' = reqs
             /\ fetched' = fetched
             /\ books' = <<>> /\ total' = 0 /\ error' = "" /\ loading' = FALSE
       /\ debounced' # <<>> => Trim(query') # <<>>
       /\ last'.op = "minSearch" /\ Trim(mQuery) = <<>> =>
             UNCHANGED <<mQuery, mBooks, mLoading, mError, mReqs>>]_vars

\* the timer fired on a blank query while results and a request were there
C9_Witness ==
    /\ last.op = "debounceEmpty"
    /\ query = <<" ">>
    /\ reqs # <<>>
    /\ books = <<>> /\ total = 0 /\ error = "" /\ ~loading

\* C10 as stated: once no request is outstanding, what a response wrote last
\* was written by the response of the most recently issued request.
C10_LatestWins ==
    reqs = <<>> /\ writer \in {"newest", "older"} => writer = "newest"

\* C11: in the extended variant loading is true exactly when at least one
\* request is outstanding: true from the start of a request, true while any
\* request is in flight, false once every request has completed.
C11_LoadingIffOutstanding ==
    variant = "extended" => (loading <=> reqs # <<>>)

\* C11, the direction the code keeps: loading is never true with no request
\* outstanding, so it is false once every request has completed.
C11_LoadingOnlyWhileOutstanding ==
    variant = "extended" => (loading => reqs # <<>>)

\* A request is still in flight and loading is already false, after another
\* request completed or after the debounce fired on an empty query.
C11_IdleWhileOutstanding ==
    /\ variant = "extended"
    /\ reqs # <<>>
    /\ ~loading
    /\ last.op \in {"settleOk", "settleFail", "debounceEmpty"}

====
